---- MODULE Spec2Model ----
(***************************************************************************)
(* ConditionalMMDecoder (nmtpytorch/layers/condmm_decoder.py).             *)
(*                                                                         *)
(* The decoder's tensors carry a batch axis on which every operation acts  *)
(* element by element; the model follows one batch element.  The modules   *)
(* the decoder only calls (GRUCell, Attention, Fusion, FF, Embedding,      *)
(* Dropout, log_softmax) are uninterpreted: their results are terms,       *)
(* tuples <<name, argument, ...>>, so that two results are equal exactly   *)
(* when the same module was applied to the same arguments.                 *)
(***************************************************************************)
EXTENDS Integers, Sequences, FiniteSets, TLC

VARIABLES
    pc,               \* position of the running call
    dec_init,         \* self.dec_init
    tied_emb,         \* self.tied_emb
    dropout_out,      \* self.dropout_out
    size_keys,        \* keys of ctx_size_dict
    heap,             \* parameter objects: object id -> weight rows
    emb_weight,       \* self.emb.weight, an object id
    out2prob_weight,  \* self.out2prob.weight, an object id
    ctx_keys,         \* keys of the ctx_dict given to forward
    y,                \* target token indices given to forward
    y_emb,            \* forward: y_emb
    loss,             \* forward: loss, the terms summed so far
    h,                \* forward: h
    t,                \* forward: loop variable t
    log_p,            \* forward: log_p
    fn,               \* frame of the running f_next call
    txt_ctx,          \* f_init: txt_ctx, one value per source position
    txt_ctx_mask,     \* f_init: txt_ctx_mask, one 0/1 per source position
    ret,              \* value returned by the call that ended last
    trace,            \* history: sub-module calls of the running f_next call
    calls,            \* history: f_next calls of the running forward call
    inits             \* history: f_init calls of the running forward call

vars == <<pc, dec_init, tied_emb, dropout_out, size_keys, heap, emb_weight,
          out2prob_weight, ctx_keys, y, y_emb, loss, h, t, log_p, fn,
          txt_ctx, txt_ctx_mask, ret, trace, calls, inits>>

(***************************************************************************)
(* Bounds of the model.                                                    *)
(***************************************************************************)
MaxT == 3        \* longest target sequence
NVocab == 2      \* n_vocab: token ids are 0 .. NVocab-1, 0 is padding/EOS
SrcLen == 2      \* number of textual source positions

Vocab == 0 .. (NVocab - 1)
CtxVals == {0, 1}          \* value of a textual context position
WeightVals == {0, 1}       \* value of a weight row
DecInits == {"zero", "mean_ctx", "other"}
DropoutRates == {0, 1}
\* Key sets of the two-stream data model: "txt" plus the visual stream
\* under one or both of its names.
KeySets == {{"txt", "img"}, {"txt", "image"}, {"txt", "img", "image"}}

Targets == UNION {[1 .. n -> Vocab] : n \in 0 .. MaxT}
Streams == [ctx : [1 .. SrcLen -> CtxVals], mask : [1 .. SrcLen -> {0, 1}]]

(***************************************************************************)
(* Terms.                                                                  *)
(***************************************************************************)
None == <<"None">>
Undef == <<"undef">>
Zeros == <<"zeros">>
NoFrame == [y |-> Undef, h |-> Undef, h1 |-> Undef, txt_z_t |-> Undef,
            img_z_t |-> Undef, final_z_t |-> Undef, h2 |-> Undef,
            logit |-> Undef]

RECURSIVE Gcd(_, _)
Gcd(a, b) == IF b = 0 THEN a ELSE Gcd(b, a % b)

RECURSIVE SumTo(_, _)
\* sum(0): the sum of s[1] .. s[n]
SumTo(s, n) == IF n = 0 THEN 0 ELSE s[n] + SumTo(s, n - 1)

\* Tensor division of non-negative values: a quotient in lowest terms, or
\* the non-finite value floating-point division by zero gives.
Div(n, d) ==
    IF d = 0
    THEN (IF n = 0 THEN <<"nan", 0, 0>> ELSE <<"inf", 0, 0>>)
    ELSE <<"fin", n \div Gcd(n, d), d \div Gcd(n, d)>>

IsFinite(q) == q[1] = "fin"

\* txt_ctx.sum(0) / txt_ctx_mask.sum(0).unsqueeze(1)
MeanCtx(ctx, mask) == Div(SumTo(ctx, Len(ctx)), SumTo(mask, Len(mask)))

\* f_init: the initial hidden state; no branch is taken for a dec_init that
\* is neither 'zero' nor 'mean_ctx', and the method returns None.
f_init(di, ctx, mask) ==
    IF di = "zero" THEN Zeros
    ELSE IF di = "mean_ctx" THEN <<"ff_dec_init", MeanCtx(ctx, mask)>>
    ELSE None

Emb(tok) == <<"emb", tok>>
Dec0(yy, hh) == <<"dec0", yy, hh>>
TxtAtt(q, c) == <<"txt_att", q, c>>
ImgAtt(q, c) == <<"img_att", q, c>>
FusionOp(a, b) == <<"fusion", a, b>>
Dec1(x, hh) == <<"dec1", x, hh>>
Hid2Out(x) == <<"hid2out", x>>
DoOut(x) == <<"do_out", x>>
NegLogSoftmax(x) == <<"neg_log_softmax", <<"out2prob", x>>>>
\* torch.gather(log_p, dim=1, index=...).sum()
GatherSum(lp, idx) == <<"gather_sum", lp, idx>>

InitLoss == <<>>      \* loss = 0.0: the empty sum

(***************************************************************************)
(* Choices the code makes, one definition each.                            *)
(***************************************************************************)
\* Variants of the choices below, each a slip the code could have made.
TiedWeight_copy(tied, embRef, ffRef) == ffRef
LoopBound_full(T) == T
GatherIndex_same(yy, tt) == yy[tt + 1]
NextHidden_stale(hOld, hRet) == hOld
AttQuery_pre(hh, h1) == hh

\* out2prob.weight after the constructor: FF's own weight, or emb.weight
\* when tied_emb is set.
TiedWeight(tied, embRef, ffRef) == IF tied THEN embRef ELSE ffRef

\* range(y_emb.shape[0] - 1): the loop runs for t = 0 .. LoopBound-1
LoopBound(T) == T - 1

\* y_emb[t], the input of step t (sequences are 1-based here)
StepInput(ye, tt) == ye[tt + 1]

\* y[t + 1], the index gathered after step t
GatherIndex(yy, tt) == yy[tt + 2]

\* forward rebinds h to the second result of f_next
NextHidden(hOld, hRet) == hRet

\* the query of both attention calls: h1.unsqueeze(0)
AttQuery(hh, h1) == h1

\* the arguments of dec1: (final_z_t, h1)
Dec1Args(f) == <<f.final_z_t, f.h1>>

\* the hidden state f_next returns: h2
ReturnedHidden(f) == f.h2

\* the key f_next reads the visual stream under
ImgKey == "image"

\* the keys the constructor reads from ctx_size_dict, in order
CtorKeys == <<"txt", "img">>

\* Embedding rows after construction (row 0 is the padding row) and FF's
\* rows after construction.
InitEmbRows == [r \in Vocab |-> IF r = 0 THEN 0 ELSE 1]
InitFFRows == [r \in Vocab |-> 0]

cfgVars == <<dec_init, tied_emb, dropout_out, size_keys>>
paramVars == <<heap, emb_weight, out2prob_weight>>
fwdVars == <<ctx_keys, y, y_emb, loss, h, t, log_p>>
argVars == <<txt_ctx, txt_ctx_mask>>
histVars == <<trace, calls, inits>>

NoRet == [kind |-> "none", val |-> Undef]

Init ==
    /\ pc = "ctor"
    /\ dec_init \in DecInits
    /\ tied_emb \in BOOLEAN
    /\ dropout_out \in DropoutRates
    /\ size_keys \in KeySets
    /\ heap = <<>>
    /\ emb_weight = 0
    /\ out2prob_weight = 0
    /\ ctx_keys = {}
    /\ y = <<>>
    /\ y_emb = <<>>
    /\ loss = Undef
    /\ h = Undef
    /\ t = 0
    /\ log_p = Undef
    /\ fn = NoFrame
    /\ txt_ctx = <<>>
    /\ txt_ctx_mask = <<>>
    /\ ret = NoRet
    /\ trace = <<>>
    /\ calls = <<>>
    /\ inits = <<>>

(***************************************************************************)
(* __init__                                                                *)
(***************************************************************************)
Construct ==
    /\ pc = "ctor"
    /\ IF \E i \in 1 .. Len(CtorKeys) : CtorKeys[i] \notin size_keys
       THEN \* ctx_size_dict[...] raises KeyError
            /\ pc' = "ctor_error"
            /\ UNCHANGED paramVars
       ELSE \* object 1: emb.weight, object 2: the weight FF creates
            /\ heap' = <<InitEmbRows, InitFFRows>>
            /\ emb_weight' = 1
            /\ out2prob_weight' = TiedWeight(tied_emb, 1, 2)
            /\ pc' = "idle"
    /\ UNCHANGED <<cfgVars, fwdVars, fn, argVars, ret, histVars>>

(***************************************************************************)
(* forward                                                                 *)
(***************************************************************************)
\* loss = 0.0; y_emb = self.emb(y)
Forward ==
    /\ pc = "idle"
    /\ \E ck \in KeySets, yy \in Targets :
        /\ ctx_keys' = ck
        /\ y' = yy
        /\ y_emb' = [i \in 1 .. Len(yy) |-> Emb(yy[i])]
    /\ loss' = InitLoss
    /\ pc' = "f_init"
    /\ UNCHANGED <<cfgVars, paramVars, h, t, log_p, fn, argVars, ret, histVars>>

\* h = self.f_init(*ctx_dict['txt'])
F_init ==
    /\ pc = "f_init"
    /\ "txt" \in ctx_keys
    /\ \E s \in Streams :
        /\ h' = f_init(dec_init, s.ctx, s.mask)
        /\ inits' = Append(inits, [key |-> "txt", val |-> h', calls |-> Len(calls)])
    /\ t' = 0
    /\ pc' = "loop"
    /\ UNCHANGED <<cfgVars, paramVars, ctx_keys, y, y_emb, loss, log_p, fn,
                   argVars, ret, trace, calls>>

\* for t in range(y_emb.shape[0] - 1): ... f_next(ctx_dict, y_emb[t], h);
\* after the loop: return loss
Loop ==
    /\ pc = "loop"
    /\ IF t < LoopBound(Len(y_emb))
       THEN /\ fn' = [NoFrame EXCEPT !.y = StepInput(y_emb, t), !.h = h]
            /\ calls' = Append(calls, [t |-> t, y |-> StepInput(y_emb, t),
                                       h |-> h, h_ret |-> Undef, index |-> -1])
            /\ trace' = <<>>
            /\ pc' = "dec0"
            /\ ret' = ret
       ELSE /\ ret' = [kind |-> "loss", val |-> loss]
            /\ pc' = "returned"
            /\ UNCHANGED <<fn, calls, trace>>
    /\ UNCHANGED <<cfgVars, paramVars, fwdVars, argVars, inits>>

\* loss += torch.gather(log_p, dim=1, index=y[t + 1].unsqueeze(1)).sum()
Gather ==
    /\ pc = "gather"
    /\ loss' = Append(loss, GatherSum(log_p, GatherIndex(y, t)))
    /\ calls' = [calls EXCEPT ![Len(calls)].index = GatherIndex(y, t)]
    /\ t' = t + 1
    /\ pc' = "loop"
    /\ UNCHANGED <<cfgVars, paramVars, ctx_keys, y, y_emb, h, log_p, fn,
                   argVars, ret, trace, inits>>

(***************************************************************************)
(* f_next, one action per statement                                        *)
(***************************************************************************)
Logged(op, args, out) == Append(trace, [op |-> op, args |-> args, out |-> out])

fnRest == <<cfgVars, paramVars, fwdVars, argVars, calls, inits>>

\* h1 = self.dec0(y, h).  With h = None (the result of f_init under an
\* unknown dec_init) the cell either raises or takes its default state,
\* depending on the torch release.
F_dec0 ==
    /\ pc = "dec0"
    /\ \/ /\ fn' = [fn EXCEPT !.h1 = Dec0(fn.y, fn.h)]
          /\ trace' = Logged("dec0", <<fn.y, fn.h>>, Dec0(fn.y, fn.h))
          /\ pc' = "txt_att"
          /\ ret' = ret
       \/ /\ fn.h = None
          /\ ret' = [kind |-> "TypeError", val |-> <<"dec0">>]
          /\ pc' = "raised"
          /\ UNCHANGED <<fn, trace>>
    /\ UNCHANGED fnRest

\* txt_alpha_t, txt_z_t = self.txt_att(h1.unsqueeze(0), *ctx_dict['txt'])
F_txt_att ==
    /\ pc = "txt_att"
    /\ "txt" \in ctx_keys
    /\ LET q == AttQuery(fn.h, fn.h1)
           c == <<"ctx", "txt">>
       IN /\ fn' = [fn EXCEPT !.txt_z_t = TxtAtt(q, c)]
          /\ trace' = Logged("txt_att", <<q, c>>, TxtAtt(q, c))
    /\ pc' = "img_att"
    /\ UNCHANGED <<fnRest, ret>>

\* img_alpha_t, img_z_t = self.img_att(h1.unsqueeze(0), *ctx_dict['image'])
F_img_att ==
    /\ pc = "img_att"
    /\ IF ImgKey \in ctx_keys
       THEN LET q == AttQuery(fn.h, fn.h1)
                c == <<"ctx", ImgKey>>
            IN /\ fn' = [fn EXCEPT !.img_z_t = ImgAtt(q, c)]
               /\ trace' = Logged("img_att", <<q, c>>, ImgAtt(q, c))
               /\ pc' = "fusion"
               /\ ret' = ret
       ELSE /\ ret' = [kind |-> "KeyError", val |-> <<ImgKey>>]
            /\ pc' = "raised"
            /\ UNCHANGED <<fn, trace>>
    /\ UNCHANGED fnRest

\* final_z_t = self.fusion(txt_z_t, img_z_t)
F_fusion ==
    /\ pc = "fusion"
    /\ fn' = [fn EXCEPT !.final_z_t = FusionOp(fn.txt_z_t, fn.img_z_t)]
    /\ trace' = Logged("fusion", <<fn.txt_z_t, fn.img_z_t>>,
                       FusionOp(fn.txt_z_t, fn.img_z_t))
    /\ pc' = "dec1"
    /\ UNCHANGED <<fnRest, ret>>

\* h2 = self.dec1(final_z_t, h1)
F_dec1 ==
    /\ pc = "dec1"
    /\ LET a == Dec1Args(fn)
       IN /\ fn' = [fn EXCEPT !.h2 = Dec1(a[1], a[2])]
          /\ trace' = Logged("dec1", a, Dec1(a[1], a[2]))
    /\ pc' = "hid2out"
    /\ UNCHANGED <<fnRest, ret>>

\* logit = self.hid2out(h2)
F_hid2out ==
    /\ pc = "hid2out"
    /\ fn' = [fn EXCEPT !.logit = Hid2Out(fn.h2)]
    /\ trace' = Logged("hid2out", <<fn.h2>>, Hid2Out(fn.h2))
    /\ pc' = IF dropout_out > 0 THEN "do_out" ELSE "out2prob"
    /\ UNCHANGED <<fnRest, ret>>

\* if self.dropout_out > 0: logit = self.do_out(logit)
F_do_out ==
    /\ pc = "do_out"
    /\ fn' = [fn EXCEPT !.logit = DoOut(fn.logit)]
    /\ trace' = Logged("do_out", <<fn.logit>>, DoOut(fn.logit))
    /\ pc' = "out2prob"
    /\ UNCHANGED <<fnRest, ret>>

\* log_p = -F.log_softmax(self.out2prob(logit), dim=-1); return log_p, h2
\* and, in forward, the assignment log_p, h = ...
F_out2prob ==
    /\ pc = "out2prob"
    /\ trace' = Logged("out2prob", <<fn.logit>>, NegLogSoftmax(fn.logit))
    /\ log_p' = NegLogSoftmax(fn.logit)
    /\ h' = NextHidden(h, ReturnedHidden(fn))
    /\ calls' = [calls EXCEPT ![Len(calls)].h_ret = ReturnedHidden(fn)]
    /\ pc' = "gather"
    /\ UNCHANGED <<cfgVars, paramVars, ctx_keys, y, y_emb, loss, t, fn,
                   argVars, ret, inits>>

\* The call is over (a result or an exception reached the caller): its
\* locals are gone, the decoder is ready for the next call.
Reset ==
    /\ pc \in {"returned", "raised"}
    /\ pc' = "idle"
    /\ ctx_keys' = {}
    /\ y' = <<>>
    /\ y_emb' = <<>>
    /\ loss' = Undef
    /\ h' = Undef
    /\ t' = 0
    /\ log_p' = Undef
    /\ fn' = NoFrame
    /\ txt_ctx' = <<>>
    /\ txt_ctx_mask' = <<>>
    /\ ret' = NoRet
    /\ trace' = <<>>
    /\ calls' = <<>>
    /\ inits' = <<>>
    /\ UNCHANGED <<cfgVars, paramVars>>

Next ==
    \/ Construct
    \/ Forward
    \/ F_init
    \/ Loop
    \/ Gather
    \/ F_dec0
    \/ F_txt_att
    \/ F_img_att
    \/ F_fusion
    \/ F_dec1
    \/ F_hid2out
    \/ F_do_out
    \/ F_out2prob
    \/ Reset

Spec == Init /\ [][Next]_vars

(***************************************************************************)
(* Parameter updates between calls: the training loop writes a row of a    *)
(* parameter in place, through the embedding or through the projection.    *)
(***************************************************************************)
UpdateEmb ==
    /\ pc = "idle"
    /\ \E r \in Vocab, v \in WeightVals :
        heap' = [heap EXCEPT ![emb_weight][r] = v]
    /\ UNCHANGED <<pc, cfgVars, emb_weight, out2prob_weight, fwdVars, fn,
                   argVars, ret, histVars>>

UpdateOut ==
    /\ pc = "idle"
    /\ \E r \in Vocab, v \in WeightVals :
        heap' = [heap EXCEPT ![out2prob_weight][r] = v]
    /\ UNCHANGED <<pc, cfgVars, emb_weight, out2prob_weight, fwdVars, fn,
                   argVars, ret, histVars>>

NextTie ==
    \/ Construct
    \/ UpdateEmb
    \/ UpdateOut

SpecTie == Init /\ [][NextTie]_vars

(***************************************************************************)
(* f_init called on its own (it is the entry point a search procedure      *)
(* calls before decoding).                                                 *)
(***************************************************************************)
F_initCall ==
    /\ pc = "idle"
    /\ \E s \in Streams :
        /\ txt_ctx' = s.ctx
        /\ txt_ctx_mask' = s.mask
    /\ pc' = "in_f_init"
    /\ UNCHANGED <<cfgVars, paramVars, fwdVars, fn, ret, histVars>>

F_initReturn ==
    /\ pc = "in_f_init"
    /\ ret' = [kind |-> "h_0", val |-> f_init(dec_init, txt_ctx, txt_ctx_mask)]
    /\ pc' = "returned"
    /\ UNCHANGED <<cfgVars, paramVars, fwdVars, fn, argVars, histVars>>

NextInit ==
    \/ Construct
    \/ F_initCall
    \/ F_initReturn
    \/ Reset

SpecInit == Init /\ [][NextInit]_vars

(***************************************************************************)
(* Properties.                                                             *)
(***************************************************************************)
InForward == pc \in {"f_init", "loop", "gather", "dec0", "txt_att", "img_att",
                     "fusion", "dec1", "hid2out", "do_out", "out2prob"}
ForwardReturned == pc = "returned" /\ ret.kind = "loss"
ForwardStarted == InForward \/ ForwardReturned \/ (pc = "raised" /\ inits # <<>>)
AfterInit == ForwardStarted /\ pc # "f_init"

\* C1: forward calls f_next exactly T-1 times for a target of length
\* T >= 1; call number t (from 0) receives the embedding of y[t], the loss
\* term added after it is gathered at index y[t+1], and the last position
\* T-1 is never an input.
C1_TeacherForcingOffset ==
    ForwardStarted =>
        /\ \A k \in 1 .. Len(calls) :
            /\ calls[k].t = k - 1
            /\ k <= Len(y) - 1
            /\ calls[k].y = Emb(y[k])
            /\ calls[k].index # -1 => calls[k].index = y[k + 1]
        /\ \A k \in 1 .. Len(loss) :
            /\ k <= Len(calls)
            /\ loss[k] = GatherSum(NegLogSoftmax(IF dropout_out > 0
                                                 THEN DoOut(Hid2Out(calls[k].h_ret))
                                                 ELSE Hid2Out(calls[k].h_ret)),
                                   y[k + 1])
        /\ (ForwardReturned /\ Len(y) >= 1) =>
            /\ Len(calls) = Len(y) - 1
            /\ Len(ret.val) = Len(y) - 1

C1_Witness ==
    /\ ForwardReturned
    /\ Len(y) = 3
    /\ y[1] # y[2]
    /\ y[2] # y[3]
    /\ Len(calls) = 2
    /\ Len(ret.val) = 2

\* C2: with a target of length 1, forward makes no f_next call, raises
\* nothing and returns the loss 0.
C2_LengthOneIsZero ==
    (ForwardStarted /\ Len(y) = 1) =>
        /\ Len(calls) = 0
        /\ pc # "raised"
        /\ pc \in {"f_init", "loop", "returned"}
        /\ pc = "returned" => ret = [kind |-> "loss", val |-> InitLoss]

C2_Witness ==
    /\ ForwardReturned
    /\ Len(y) = 1
    /\ ret.val = InitLoss

FixedOrder == <<"dec0", "txt_att", "img_att", "fusion", "dec1", "hid2out",
                "out2prob">>
NotDropout(e) == e.op # "do_out"
Named == SelectSeq(trace, NotDropout)

\* C3: inside f_next the sub-modules run in the order stage-1 cell, textual
\* attention, visual attention, fusion, stage-2 cell, bottleneck,
\* vocabulary projection; both attentions are queried with h1 and not with
\* the h given to the call; the stage-2 cell gets (fused context, h1); the
\* hidden state returned is h2.
C3_StepOrder ==
    /\ Len(Named) <= Len(FixedOrder)
    /\ \A i \in 1 .. Len(Named) : Named[i].op = FixedOrder[i]
    /\ \A i \in 1 .. Len(trace) :
        /\ trace[i].op \in {"txt_att", "img_att"} =>
            /\ trace[1].op = "dec0"
            /\ trace[i].args[1] = trace[1].out
            /\ trace[i].args[1] # fn.h
        /\ trace[i].op = "dec1" =>
            /\ trace[4].op = "fusion"
            /\ trace[4].args = <<trace[2].out, trace[3].out>>
            /\ trace[i].args = <<trace[4].out, trace[1].out>>
    /\ pc = "gather" =>
        /\ Len(Named) = Len(FixedOrder)
        /\ trace[5].op = "dec1"
        /\ calls[Len(calls)].h_ret = trace[5].out
        /\ h = trace[5].out

C3_Witness ==
    /\ pc = "gather"
    /\ Len(calls) = 2
    /\ Len(trace) = 8
    /\ trace[7].op = "do_out"

\* C8: with tied_emb the embedding table and the projection weight are one
\* object, so their rows agree after any updates through either; without
\* it they are two objects and an update of one leaves the other as it was.
C8_Tying ==
    /\ [](pc = "idle" =>
            IF tied_emb
            THEN /\ emb_weight = out2prob_weight
                 /\ \A r \in Vocab :
                        heap[emb_weight][r] = heap[out2prob_weight][r]
            ELSE emb_weight # out2prob_weight)
    /\ [][(pc = "idle" /\ ~tied_emb) =>
            /\ heap'[emb_weight] # heap[emb_weight] =>
                   heap'[out2prob_weight] = heap[out2prob_weight]
            /\ heap'[out2prob_weight] # heap[out2prob_weight] =>
                   heap'[emb_weight] = heap[emb_weight]]_vars

C8_Witness ==
    /\ pc = "idle"
    /\ tied_emb
    /\ heap[emb_weight] # InitEmbRows
    /\ heap[out2prob_weight] = heap[emb_weight]

\* C9: in a forward call f_init is invoked once, before any f_next call, on
\* the textual stream; the first f_next call gets f_init's result and each
\* later call gets the hidden state the call before it returned.
C9_HiddenThreading ==
    /\ pc = "f_init" => (Len(inits) = 0 /\ Len(calls) = 0)
    /\ pc = "idle" => (h = Undef /\ calls = <<>> /\ inits = <<>>)
    /\ AfterInit =>
        /\ Len(inits) = 1
        /\ inits[1].calls = 0
        /\ inits[1].key = "txt"
        /\ \A k \in 1 .. Len(calls) :
            /\ calls[k].h = (IF k = 1 THEN inits[1].val ELSE calls[k - 1].h_ret)
            /\ k > 1 => calls[k - 1].h_ret # Undef

C9_Witness ==
    /\ ForwardReturned
    /\ Len(calls) = 2
    /\ Len(inits) = 1
    /\ calls[2].h = calls[1].h_ret

(***************************************************************************)
(* Statements the code does not satisfy.                                   *)
(***************************************************************************)
RECURSIVE MaskedSumTo(_, _, _)
MaskedSumTo(s, m, n) ==
    IF n = 0 THEN 0
    ELSE (IF m[n] = 1 THEN s[n] ELSE 0) + MaskedSumTo(s, m, n - 1)

InitReturned == pc = "returned" /\ ret.kind = "h_0"

\* C4: under mean_ctx the vector given to the initializer projection is the
\* sum of the context vectors at the positions whose mask is 1, divided by
\* the number of those positions.
C4_MaskedMean ==
    (InitReturned /\ dec_init = "mean_ctx"
        /\ SumTo(txt_ctx_mask, Len(txt_ctx_mask)) > 0) =>
        ret.val = <<"ff_dec_init",
                    Div(MaskedSumTo(txt_ctx, txt_ctx_mask, Len(txt_ctx)),
                        SumTo(txt_ctx_mask, Len(txt_ctx_mask)))>>

\* C5: a decoder whose dec_init is neither 'zero' nor 'mean_ctx' is never
\* constructed.
C5_UnknownDecInitRejected ==
    dec_init \notin {"zero", "mean_ctx"} => pc \in {"ctor", "ctor_error"}

\* C6: forward does not return a loss for a target of length 0.
C6_EmptyTargetRejected ==
    ~(ForwardReturned /\ Len(y) = 0)

\* C7: under mean_ctx with no valid textual position, f_init does not
\* return a hidden state computed from a division by zero.
C7_ZeroDivisorGuarded ==
    (InitReturned /\ dec_init = "mean_ctx"
        /\ SumTo(txt_ctx_mask, Len(txt_ctx_mask)) = 0) =>
        IsFinite(ret.val[2])

\* C10: a decoder constructed from a size dictionary with keys K never
\* fails with a missing key in f_next when the context dictionary has
\* exactly the keys K.
C10_SameKeysAccepted ==
    (pc = "raised" /\ ctx_keys = size_keys) => ret.kind # "KeyError"

====
